---- MODULE Spec2Model ----
(***************************************************************************)
(* A model of pkg/ghost-utils/GhostConfig.go: the YAML configuration       *)
(* loader (New, NewFromPath), the project setup (Setup, surrealSetup,      *)
(* signinObj) and the BasicRoute implementation of GhostRoute.             *)
(***************************************************************************)
EXTENDS Integers, Sequences, FiniteSets, TLC

VARIABLES
    files,       \* the file system: path -> file
    loadCall,    \* the loader call made last: [fn, path], or NoCall
    loadRet,     \* what that call returned: [cfg, err]
    reads,       \* the paths that call handed to ioutil.ReadFile, in order
    unmarshals,  \* how many times that call invoked yaml.Unmarshal
    ghostConfig, \* the receiver of Setup
    engine,      \* the *gin.Engine r: [htmlGlob, static]
    engine0,     \* the engine as it was when Setup was called
    setupPc,     \* where the Setup call stands
    db,          \* surrealSetup's db
    err,         \* surrealSetup's err
    calls,       \* the calls Setup made on its collaborators, in order
    conn,        \* the connection behind the handle: "none", "open", "closed"
    setupRet,    \* what Setup returned: [db, err]
    basicRoute,  \* the caller's BasicRoute
    made,        \* the route the last BasicRoute.New returned
    created,     \* the group the last Route call got from rg.Group
    routed,      \* Route has been called on the route basicRoute holds
    routeCall,   \* the route call made last: [op, path, db, rg]
    routeRet     \* what an accessor (DB, RG) returned last: [db, group]

loaderVars == <<files, loadCall, loadRet, reads, unmarshals>>
setupVars == <<ghostConfig, engine, engine0, setupPc, db, err, calls, conn,
               setupRet>>
routeVars == <<basicRoute, made, created, routed, routeCall, routeRet>>

vars == <<loaderVars, setupVars, routeVars>>

----------------------------------------------------------------------------
(* Bounds of the model.                                                    *)

\* the longest file the loader is given, in lines
MaxLines == 2

----------------------------------------------------------------------------
(* Error values.  The code returns whatever error its collaborator gave;   *)
(* they are named after the call that produced them.                       *)

Nil == "nil"
ReadError == "ReadError"
ParseError == "ParseError"
ConnectionError == "ConnectionError"
AuthError == "AuthError"
SelectionError == "SelectionError"

----------------------------------------------------------------------------
(* GhostConfig and its yaml struct tags.                                   *)

\* GhostConfig{}: every string empty, the port zero
ZeroConfig ==
    [ Name        |-> "",
      Version     |-> "",
      Description |-> "",
      Port        |-> 0,
      SurrealDB   |-> [ URL |-> "", Username |-> "", Password |-> "",
                        Database |-> "", Namespace |-> "" ],
      TailwindCSS |-> [ Input |-> "", Output |-> "" ] ]

\* the yaml tags of GhostConfig: key -> the field it fills and the field's kind
GhostConfigTags ==
    ( "name"        :> [field |-> "Name",        kind |-> "string"] ) @@
    ( "version"     :> [field |-> "Version",     kind |-> "string"] ) @@
    ( "description" :> [field |-> "Description", kind |-> "string"] ) @@
    ( "port"        :> [field |-> "Port",        kind |-> "int"]    ) @@
    ( "surrealdb"   :> [field |-> "SurrealDB",   kind |-> "struct"] ) @@
    ( "tailwindcss" :> [field |-> "TailwindCSS", kind |-> "struct"] )

\* SurrealDBTags with the tags of Username and Password exchanged
SurrealDBTagsExchanged ==
    ( "surrealdb-url"       :> [field |-> "URL",       kind |-> "string"] ) @@
    ( "surrealdb-username"  :> [field |-> "Password",  kind |-> "string"] ) @@
    ( "surrealdb-password"  :> [field |-> "Username",  kind |-> "string"] ) @@
    ( "surrealdb-database"  :> [field |-> "Database",  kind |-> "string"] ) @@
    ( "surrealdb-namespace" :> [field |-> "Namespace", kind |-> "string"] )

\* the yaml tags of the anonymous struct of GhostConfig.SurrealDB
SurrealDBTags ==
    ( "surrealdb-url"       :> [field |-> "URL",       kind |-> "string"] ) @@
    ( "surrealdb-username"  :> [field |-> "Username",  kind |-> "string"] ) @@
    ( "surrealdb-password"  :> [field |-> "Password",  kind |-> "string"] ) @@
    ( "surrealdb-database"  :> [field |-> "Database",  kind |-> "string"] ) @@
    ( "surrealdb-namespace" :> [field |-> "Namespace", kind |-> "string"] )

\* the yaml tags of the anonymous struct of GhostConfig.TailwindCSS
TailwindCSSTags ==
    ( "input"  :> [field |-> "Input",  kind |-> "string"] ) @@
    ( "output" :> [field |-> "Output", kind |-> "string"] )

\* the tags of the struct held by a struct-kinded field of GhostConfig
TagsOf(field) ==
    IF field = "SurrealDB" THEN SurrealDBTags ELSE TailwindCSSTags

----------------------------------------------------------------------------
(* The bytes of a file, as block-style YAML lines.  A line is              *)
(*   key: value      (indent 0 or 1), or                                   *)
(*   key:            (val is the null scalar; its indented lines follow).  *)

StrScalar(t) == [tag |-> "!!str", text |-> t]
IntScalar(t) == [tag |-> "!!int", text |-> t]
NullScalar == [tag |-> "!!null", text |-> ""]

\* the decimal integer a !!int scalar denotes
Atoi(text) ==
    CASE text = "8080" -> 8080
      [] text = "0"    -> 0
      [] OTHER         -> 0

ScalarNode(s) == [kind |-> "scalar", tag |-> s.tag, text |-> s.text]
MappingNode(content) == [kind |-> "mapping", content |-> content]

\* the composer: lines -> the top-level mapping's content, or a syntax error.
\* An indented line is a child of the `key:` line before it; after a
\* `key: value` line it is a syntax error.
RECURSIVE compose(_, _, _)
compose(lines, i, acc) ==
    IF i > Len(lines) THEN [ok |-> TRUE, content |-> acc]
    ELSE LET l == lines[i]
             n == Len(acc)
             child == [key |-> l.key, node |-> ScalarNode(l.val)]
         IN  IF l.indent = 0
             THEN compose(lines, i + 1, Append(acc, child))
             ELSE IF n = 0 THEN [ok |-> FALSE, content |-> <<>>]
             ELSE IF acc[n].node.kind = "mapping"
             THEN compose(lines, i + 1,
                      [acc EXCEPT ![n].node.content = Append(@, child)])
             ELSE IF acc[n].node.tag = "!!null"
             THEN compose(lines, i + 1,
                      [acc EXCEPT ![n].node = MappingNode(<<child>>)])
             ELSE [ok |-> FALSE, content |-> <<>>]

\* yaml.v3 decoder.mapping: a key defined twice in one mapping
HasDuplicateKeys(content) ==
    \E i, j \in 1..Len(content) : i < j /\ content[i].key = content[j].key

\* yaml.v3 decoder: one node into one field; [v, good]
RECURSIVE unmarshalNode(_, _, _)
RECURSIVE mappingStruct(_, _, _, _)

unmarshalNode(n, old, info) ==
    IF n.kind = "scalar" /\ n.tag = "!!null" THEN [v |-> old, good |-> TRUE]
    ELSE IF info.kind = "string"
    THEN IF n.kind = "scalar" THEN [v |-> n.text, good |-> TRUE]
                              ELSE [v |-> old, good |-> FALSE]
    ELSE IF info.kind = "int"
    THEN IF n.kind = "scalar" /\ n.tag = "!!int"
         THEN [v |-> Atoi(n.text), good |-> TRUE]
         ELSE [v |-> old, good |-> FALSE]
    ELSE IF n.kind = "mapping"
         THEN IF HasDuplicateKeys(n.content)
              THEN [v |-> old, good |-> FALSE]
              ELSE mappingStruct(n.content, 1, [v |-> old, good |-> TRUE],
                                 TagsOf(info.field))
         ELSE [v |-> old, good |-> FALSE]

\* yaml.v3 decoder.mappingStruct: each key with a tagged field is decoded into
\* the field, any other key is skipped; a type error is recorded and the
\* decoding goes on
mappingStruct(content, i, acc, tags) ==
    IF i > Len(content) THEN acc
    ELSE LET e == content[i]
         IN  IF e.key \in DOMAIN tags
             THEN LET info == tags[e.key]
                      r == unmarshalNode(e.node, acc.v[info.field], info)
                  IN  mappingStruct(content, i + 1,
                          [v |-> [acc.v EXCEPT ![info.field] = r.v],
                           good |-> acc.good /\ r.good], tags)
             ELSE mappingStruct(content, i + 1, acc, tags)

\* yaml.Unmarshal(data, &ghostConfig): [out, err]
Unmarshal(data, out) ==
    LET doc == compose(data, 1, <<>>)
    IN  IF ~doc.ok THEN [out |-> out, err |-> ParseError]
        ELSE IF HasDuplicateKeys(doc.content)
        THEN [out |-> out, err |-> ParseError]
        ELSE LET r == mappingStruct(doc.content, 1,
                          [v |-> out, good |-> TRUE], GhostConfigTags)
             IN  [out |-> r.v, err |-> IF r.good THEN Nil ELSE ParseError]

----------------------------------------------------------------------------
(* The file system.                                                        *)

DefaultPath == "./ghost.yaml"
TestingPath == "./ghost.testing.yaml"
AbsentPath == "./nowhere.yaml"

\* the paths the file system holds an entry for
Paths == {DefaultPath, TestingPath}

Missing == [kind |-> "missing", data |-> <<>>]
Denied == [kind |-> "denied", data |-> <<>>]
File(lines) == [kind |-> "file", data |-> lines]

\* ioutil.ReadFile: [data, err]
ReadFile(fs, path) ==
    IF path \in DOMAIN fs /\ fs[path].kind = "file"
    THEN [data |-> fs[path].data, err |-> Nil]
    ELSE [data |-> <<>>, err |-> ReadError]

\* NewFromPath going on to decode after a failed read
NewFromPathBodyReadUnchecked(fs, path) ==
    LET rd == ReadFile(fs, path)
        u == Unmarshal(rd.data, ZeroConfig)
    IN  [cfg |-> u.out, err |-> u.err, reads |-> <<path>>, unmarshals |-> 1]

\* func NewFromPath(path string) (GhostConfig, error)
NewFromPathBody(fs, path) ==
    LET config == ZeroConfig    \* ghostConfig := GhostConfig{}
        rd == ReadFile(fs, path)
    IN  IF rd.err # Nil
        THEN [cfg |-> config, err |-> rd.err,
              reads |-> <<path>>, unmarshals |-> 0]
        ELSE LET u == Unmarshal(rd.data, config)
             IN  IF u.err # Nil
                 THEN [cfg |-> u.out, err |-> u.err,
                       reads |-> <<path>>, unmarshals |-> 1]
                 ELSE [cfg |-> u.out, err |-> Nil,
                       reads |-> <<path>>, unmarshals |-> 1]

\* New returning nil whatever the decoder said
NewBodyDecodeUnchecked(fs) ==
    LET rd == ReadFile(fs, "./ghost.yaml")
    IN  IF rd.err # Nil
        THEN [cfg |-> ZeroConfig, err |-> rd.err,
              reads |-> <<"./ghost.yaml">>, unmarshals |-> 0]
        ELSE [cfg |-> Unmarshal(rd.data, ZeroConfig).out, err |-> Nil,
              reads |-> <<"./ghost.yaml">>, unmarshals |-> 1]

\* New loading the fixture instead of the descriptor
NewBodyOtherFile(fs) == NewFromPathBody(fs, "./ghost.testing.yaml")

\* func New() (GhostConfig, error)
NewBody(fs) ==
    LET config == ZeroConfig    \* ghostConfig := GhostConfig{}
        rd == ReadFile(fs, "./ghost.yaml")
    IN  IF rd.err # Nil
        THEN [cfg |-> config, err |-> rd.err,
              reads |-> <<"./ghost.yaml">>, unmarshals |-> 0]
        ELSE LET u == Unmarshal(rd.data, config)
             IN  IF u.err # Nil
                 THEN [cfg |-> u.out, err |-> u.err,
                       reads |-> <<"./ghost.yaml">>, unmarshals |-> 1]
                 ELSE [cfg |-> u.out, err |-> Nil,
                       reads |-> <<"./ghost.yaml">>, unmarshals |-> 1]

----------------------------------------------------------------------------
(* The files the loader is run on.                                         *)

\* the keys a document may use: the descriptor's own and one it does not know
TopKeys == {"name", "version", "description", "port", "surrealdb",
            "tailwindcss", "author"}
SubKeys == {"surrealdb-url", "surrealdb-username", "surrealdb-password",
            "surrealdb-database", "surrealdb-namespace", "input", "output",
            "extra"}
Scalars == {StrScalar("demo"), IntScalar("8080")}

Lines ==
    [indent : {0}, key : TopKeys, val : Scalars \cup {NullScalar}] \cup
    [indent : {1}, key : SubKeys, val : Scalars]

\* block-style texts of at most MaxLines lines; the first line is not indented
Texts ==
    { t \in UNION { [1..n -> Lines] : n \in 0..MaxLines } :
        Len(t) > 0 => t[1].indent = 0 }

DescriptorFiles == {Missing, Denied} \cup { File(t) : t \in Texts }

\* the test fixture beside the descriptor
FixtureText ==
    << [indent |-> 0, key |-> "name", val |-> StrScalar("demo")],
       [indent |-> 0, key |-> "port", val |-> IntScalar("8080")] >>
FixtureFiles == {Missing, Denied, File(FixtureText)}

NoCall == [fn |-> "none", path |-> ""]
NoRet == [cfg |-> ZeroConfig, err |-> Nil]

\* the caller runs ghostutils.New()
New ==
    LET r == NewBody(files)
    IN  /\ loadCall' = [fn |-> "New", path |-> ""]
        /\ loadRet' = [cfg |-> r.cfg, err |-> r.err]
        /\ reads' = r.reads
        /\ unmarshals' = r.unmarshals
        /\ UNCHANGED <<files, setupVars, routeVars>>

\* the caller runs ghostutils.NewFromPath(path)
NewFromPath ==
    \E path \in Paths \cup {AbsentPath} :
        LET r == NewFromPathBody(files, path)
        IN  /\ loadCall' = [fn |-> "NewFromPath", path |-> path]
            /\ loadRet' = [cfg |-> r.cfg, err |-> r.err]
            /\ reads' = r.reads
            /\ unmarshals' = r.unmarshals
            /\ UNCHANGED <<files, setupVars, routeVars>>

----------------------------------------------------------------------------
(* Project setup: Setup, surrealSetup, signinObj.                          *)

\* *surrealdb.DB: nil, or the handle surrealdb.New made for a URL
NilDB == [nil |-> TRUE, url |-> ""]
Handle(url) == [nil |-> FALSE, url |-> url]

\* the database server of the run
ServerURL == "ws://localhost:8000"
ServerAccounts == { [user |-> "root", pass |-> "secret"] }
ServerDatabases == { <<"test", "app">>, <<"test", "test">> }

\* the outcomes surrealdb.New(url) can have: an unreachable URL fails, and a
\* reachable one may fail as well
NewOutcomes(url) == IF url = ServerURL THEN {TRUE, FALSE} ELSE {FALSE}
\* the outcomes db.Signin(vars) can have
SigninOutcomes(obj) ==
    IF obj \in ServerAccounts THEN {TRUE, FALSE} ELSE {FALSE}
\* the outcomes db.Use(ns, database) can have
UseOutcomes(ns, database) ==
    IF <<ns, database>> \in ServerDatabases THEN {TRUE, FALSE} ELSE {FALSE}

\* signinObj with the two values exchanged
signinObjExchanged(c) ==
    [user |-> c.SurrealDB.Password, pass |-> c.SurrealDB.Username]

\* func (ghostConfig GhostConfig) signinObj() map[string]interface{}
signinObj(c) ==
    [user |-> c.SurrealDB.Username, pass |-> c.SurrealDB.Password]

\* the argument of surrealdb.New in surrealSetup
NewArgs(c) == <<c.SurrealDB.URL>>

\* the arguments of db.Use in surrealSetup
UseArgs(c) == <<c.SurrealDB.Namespace, c.SurrealDB.Database>>

\* AfterStep selecting the namespace before signing in
AfterStepUseFirst(step, ok) ==
    CASE step = "New"          -> IF ok THEN "Use" ELSE "return"
      [] step = "Use"          -> IF ok THEN "Signin" ELSE "return"
      [] step = "Signin"       -> IF ok THEN "LoadHTMLGlob" ELSE "return"
      [] step = "LoadHTMLGlob" -> "Static"
      [] step = "Static"       -> "return"

\* AfterStep going on to db.Use after a failed sign-in
AfterStepSigninUnchecked(step, ok) ==
    CASE step = "New"          -> IF ok THEN "Signin" ELSE "return"
      [] step = "Signin"       -> "Use"
      [] step = "Use"          -> IF ok THEN "LoadHTMLGlob" ELSE "return"
      [] step = "LoadHTMLGlob" -> "Static"
      [] step = "Static"       -> "return"

\* the control flow of surrealSetup and Setup: the step that follows a step
\* that succeeded (ok) or failed; "return" hands db and err to the caller
AfterStep(step, ok) ==
    CASE step = "New"          -> IF ok THEN "Signin" ELSE "return"
      [] step = "Signin"       -> IF ok THEN "Use" ELSE "return"
      [] step = "Use"          -> IF ok THEN "LoadHTMLGlob" ELSE "return"
      [] step = "LoadHTMLGlob" -> "Static"
      [] step = "Static"       -> "return"

\* ReturnedDB handing back nil beside an error
ReturnedDBNilOnError(d, e) == IF e # Nil THEN NilDB ELSE d

\* the handle Setup returns beside err: surrealSetup's db, as it is
ReturnedDB(d, e) == d

\* the configurations Setup is run with
SetupConfigs ==
    { [ZeroConfig EXCEPT
          !.Name = "demo", !.Port = 8080,
          !.SurrealDB = [URL |-> u, Username |-> a.user, Password |-> a.pass,
                         Database |-> d, Namespace |-> n]] :
        u \in {ServerURL, "ws://unreachable:8000"},
        a \in { [user |-> "root", pass |-> "secret"],
                [user |-> "root", pass |-> "root"],
                [user |-> "secret", pass |-> "root"] },
        n \in {"test", "app"},
        d \in {"test", "app"} }

\* a gin engine: the template glob loaded and the static directories served
FreshEngine == [htmlGlob |-> "", static |-> {}]
Engines == { FreshEngine,
             [htmlGlob |-> "./templates/*", static |-> {}],
             [htmlGlob |-> "", static |-> {<<"/assets", "./assets">>}] }

NoSetupRet == [db |-> NilDB, err |-> Nil]

Call(op, args, ok) == [op |-> op, args |-> args, ok |-> ok]

\* the caller runs ghostConfig.Setup(r), which enters surrealSetup
CallSetup ==
    /\ setupPc = "idle"
    /\ setupPc' = "New"
    /\ engine0' = engine
    /\ calls' = <<>>
    /\ db' = NilDB
    /\ err' = Nil
    /\ UNCHANGED <<ghostConfig, engine, conn, setupRet>>
    /\ UNCHANGED <<loaderVars, routeVars>>

\* db, err := surrealdb.New(ghostConfig.SurrealDB.URL)
SurrealNew ==
    /\ setupPc = "New"
    /\ \E ok \in NewOutcomes(NewArgs(ghostConfig)[1]) :
          /\ calls' = Append(calls, Call("New", NewArgs(ghostConfig), ok))
          /\ db' = IF ok THEN Handle(NewArgs(ghostConfig)[1]) ELSE NilDB
          /\ conn' = IF ok THEN "open" ELSE conn
          /\ err' = IF ok THEN Nil ELSE ConnectionError
          /\ setupPc' = AfterStep("New", ok)
    /\ UNCHANGED <<ghostConfig, engine, engine0, setupRet>>
    /\ UNCHANGED <<loaderVars, routeVars>>

\* _, err := db.Signin(ghostConfig.signinObj())
Signin ==
    /\ setupPc = "Signin"
    /\ \E ok \in SigninOutcomes(signinObj(ghostConfig)) :
          /\ calls' = Append(calls,
                          Call("Signin", <<signinObj(ghostConfig)>>, ok))
          /\ err' = IF ok THEN Nil ELSE AuthError
          /\ setupPc' = AfterStep("Signin", ok)
    /\ UNCHANGED <<ghostConfig, engine, engine0, db, conn, setupRet>>
    /\ UNCHANGED <<loaderVars, routeVars>>

\* _, err := db.Use(ghostConfig.SurrealDB.Namespace, ghostConfig.SurrealDB.Database)
Use ==
    /\ setupPc = "Use"
    /\ \E ok \in UseOutcomes(UseArgs(ghostConfig)[1], UseArgs(ghostConfig)[2]) :
          /\ calls' = Append(calls, Call("Use", UseArgs(ghostConfig), ok))
          /\ err' = IF ok THEN Nil ELSE SelectionError
          /\ setupPc' = AfterStep("Use", ok)
    /\ UNCHANGED <<ghostConfig, engine, engine0, db, conn, setupRet>>
    /\ UNCHANGED <<loaderVars, routeVars>>

\* r.LoadHTMLGlob("./src/views/**/*")
LoadHTMLGlob ==
    /\ setupPc = "LoadHTMLGlob"
    /\ calls' = Append(calls,
                    Call("LoadHTMLGlob", <<"./src/views/**/*">>, TRUE))
    /\ engine' = [engine EXCEPT !.htmlGlob = "./src/views/**/*"]
    /\ setupPc' = AfterStep("LoadHTMLGlob", TRUE)
    /\ UNCHANGED <<ghostConfig, engine0, db, err, conn, setupRet>>
    /\ UNCHANGED <<loaderVars, routeVars>>

\* r.Static("/static", "./static")
Static ==
    /\ setupPc = "Static"
    /\ calls' = Append(calls, Call("Static", <<"/static", "./static">>, TRUE))
    /\ engine' = [engine EXCEPT !.static = @ \cup {<<"/static", "./static">>}]
    /\ setupPc' = AfterStep("Static", TRUE)
    /\ UNCHANGED <<ghostConfig, engine0, db, err, conn, setupRet>>
    /\ UNCHANGED <<loaderVars, routeVars>>

\* return db, err
SetupReturn ==
    /\ setupPc = "return"
    /\ setupRet' = [db |-> ReturnedDB(db, err), err |-> err]
    /\ setupPc' = "done"
    /\ UNCHANGED <<ghostConfig, engine, engine0, db, err, calls, conn>>
    /\ UNCHANGED <<loaderVars, routeVars>>

----------------------------------------------------------------------------
(* BasicRoute, the implementation of GhostRoute.                           *)

\* *gin.RouterGroup: nil, or the group rg.Group(path) makes under rg
NilGroup == [nil |-> TRUE, parent |-> "", path |-> ""]
Group(rg, path) == [nil |-> FALSE, parent |-> rg, path |-> path]

\* BasicRoute{}
ZeroRoute == [db |-> NilDB, RouteGroup |-> NilGroup, Path |-> ""]

\* New building on the receiver: only the path is set
BasicRouteNewOnReceiver(self, path, d) == [self EXCEPT !.Path = path]

\* func (basicRoute BasicRoute) New(path string, db *surrealdb.DB) GhostRoute
BasicRouteNew(self, path, d) ==
    [db |-> d, Path |-> path, RouteGroup |-> NilGroup]

\* func (basicRoute BasicRoute) DB() *surrealdb.DB
DB(self) == self.db

\* func (basicRoute BasicRoute) Route(rg *gin.RouterGroup): the method's copy
\* of the receiver when the method returns
BasicRouteRoute(self, rg) ==
    LET basic == Group(rg, self.Path)
    IN  [self EXCEPT !.RouteGroup = basic]

\* func (basicRoute BasicRoute) RG() *gin.RouterGroup
RG(self) == self.RouteGroup

\* a method with a value receiver works on a copy: the caller's value after
\* the call is the caller's value before it, whatever became of the copy
ValueReceiver(caller, copy) == caller

\* what the caller passes to the route methods
RoutePaths == {"/api", "/basic"}
RouteDBs == {NilDB, Handle(ServerURL)}
RouterGroups == {"/", "/v1"}

NoRouteCall == [op |-> "none", path |-> "", db |-> NilDB, rg |-> ""]
NoRouteRet == [db |-> NilDB, group |-> NilGroup]

\* the caller runs basicRoute.New(path, db) and keeps the result in made
CallNew ==
    \E path \in RoutePaths, d \in RouteDBs :
        /\ made' = BasicRouteNew(basicRoute, path, d)
        /\ basicRoute' = ValueReceiver(basicRoute, basicRoute)
        /\ routeCall' = [op |-> "New", path |-> path, db |-> d, rg |-> ""]
        /\ UNCHANGED <<created, routed, routeRet>>
        /\ UNCHANGED <<loaderVars, setupVars>>

\* the caller assigns the route New returned to its variable
AssignRoute ==
    /\ routeCall.op = "New"
    /\ basicRoute' = made
    /\ routed' = FALSE
    /\ routeCall' = [NoRouteCall EXCEPT !.op = "assign"]
    /\ UNCHANGED <<made, created, routeRet>>
    /\ UNCHANGED <<loaderVars, setupVars>>

\* the caller sets the exported field itself:
\* basicRoute.RouteGroup = rg.Group(basicRoute.Path)
AssignRouteGroup ==
    \E rg \in RouterGroups :
        /\ basicRoute.RouteGroup = NilGroup
        /\ basicRoute' = [basicRoute EXCEPT
                              !.RouteGroup = Group(rg, basicRoute.Path)]
        /\ routed' = FALSE
        /\ routeCall' = [NoRouteCall EXCEPT !.op = "assign"]
        /\ UNCHANGED <<made, created, routeRet>>
        /\ UNCHANGED <<loaderVars, setupVars>>

\* the caller runs basicRoute.Route(rg)
CallRoute ==
    \E rg \in RouterGroups :
        LET copy == BasicRouteRoute(basicRoute, rg)
        IN  /\ created' = RG(copy)
            /\ basicRoute' = ValueReceiver(basicRoute, copy)
            /\ routed' = TRUE
            /\ routeCall' = [NoRouteCall EXCEPT !.op = "Route", !.rg = rg]
            /\ UNCHANGED <<made, routeRet>>
            /\ UNCHANGED <<loaderVars, setupVars>>

\* the caller runs basicRoute.RG()
CallRG ==
    /\ routeRet' = [routeRet EXCEPT !.group = RG(basicRoute)]
    /\ routeCall' = [NoRouteCall EXCEPT !.op = "RG"]
    /\ UNCHANGED <<basicRoute, made, created, routed>>
    /\ UNCHANGED <<loaderVars, setupVars>>

\* the caller runs basicRoute.DB()
CallDB ==
    /\ routeRet' = [routeRet EXCEPT !.db = DB(basicRoute)]
    /\ routeCall' = [NoRouteCall EXCEPT !.op = "DB"]
    /\ UNCHANGED <<basicRoute, made, created, routed>>
    /\ UNCHANGED <<loaderVars, setupVars>>

----------------------------------------------------------------------------
(* The specifications: the loader, the setup and the routes, each run on   *)
(* its own with the other two at rest.                                     *)

IdleLoader ==
    /\ files = (DefaultPath :> Missing) @@ (TestingPath :> Missing)
    /\ loadCall = NoCall
    /\ loadRet = NoRet
    /\ reads = <<>>
    /\ unmarshals = 0

IdleSetup ==
    /\ ghostConfig = ZeroConfig
    /\ engine = FreshEngine
    /\ engine0 = FreshEngine
    /\ setupPc = "idle"
    /\ db = NilDB
    /\ err = Nil
    /\ calls = <<>>
    /\ conn = "none"
    /\ setupRet = NoSetupRet

IdleRoute ==
    /\ basicRoute = ZeroRoute
    /\ made = ZeroRoute
    /\ created = NilGroup
    /\ routed = FALSE
    /\ routeCall = NoRouteCall
    /\ routeRet = NoRouteRet

InitLoader ==
    /\ \E f \in DescriptorFiles, g \in FixtureFiles :
          files = (DefaultPath :> f) @@ (TestingPath :> g)
    /\ loadCall = NoCall
    /\ loadRet = NoRet
    /\ reads = <<>>
    /\ unmarshals = 0
    /\ IdleSetup
    /\ IdleRoute

InitSetup ==
    /\ ghostConfig \in SetupConfigs
    /\ engine \in Engines
    /\ engine0 = engine
    /\ setupPc = "idle"
    /\ db = NilDB
    /\ err = Nil
    /\ calls = <<>>
    /\ conn = "none"
    /\ setupRet = NoSetupRet
    /\ IdleLoader
    /\ IdleRoute

InitRoute ==
    /\ IdleRoute
    /\ IdleLoader
    /\ IdleSetup

NextLoader == New \/ NewFromPath

NextSetup ==
    CallSetup \/ SurrealNew \/ Signin \/ Use \/ LoadHTMLGlob \/ Static
        \/ SetupReturn

NextRoute ==
    CallNew \/ AssignRoute \/ AssignRouteGroup \/ CallRoute \/ CallRG
        \/ CallDB

SpecLoader == InitLoader /\ [][NextLoader]_vars
SpecSetup == InitSetup /\ [][NextSetup]_vars
SpecRoute == InitRoute /\ [][NextRoute]_vars

----------------------------------------------------------------------------
(* What the descriptor's documentation says of a text, read off its lines. *)

\* the file the last loader call was asked to load
CalledPath == IF loadCall.fn = "New" THEN "./ghost.yaml" ELSE loadCall.path
Called == loadCall.fn # "none"
Readable == CalledPath \in DOMAIN files /\ files[CalledPath].kind = "file"
CalledText == files[CalledPath].data

\* the `key:` or `key: value` line an indented line belongs to (0: none)
ParentOf(t, i) ==
    LET above == { j \in 1..(i - 1) : t[j].indent = 0 }
    IN  IF above = {} THEN 0
        ELSE CHOOSE j \in above : \A k \in above : k <= j
ChildrenOf(t, j) == { i \in 1..Len(t) : t[i].indent = 1 /\ ParentOf(t, i) = j }
TopLines(t) == { j \in 1..Len(t) : t[j].indent = 0 }

ValidSyntax(t) ==
    \A i \in 1..Len(t) :
        t[i].indent = 1 =>
            /\ ParentOf(t, i) # 0
            /\ t[ParentOf(t, i)].val = NullScalar

StringKeys == {"name", "version", "description"}
SectionKeys == {"surrealdb", "tailwindcss"}

\* the expected shape: no key twice, strings and the port scalars (the port
\* an integer), the two sections mappings of scalars without a key twice.
\* What lies under a key the descriptor does not know is not looked at.
ExpectedShape(t) ==
    /\ \A i, j \in TopLines(t) : t[i].key = t[j].key => i = j
    /\ \A j \in TopLines(t) :
          /\ t[j].key \in StringKeys => ChildrenOf(t, j) = {}
          /\ t[j].key = "port" =>
                ChildrenOf(t, j) = {} /\ t[j].val.tag \in {"!!int", "!!null"}
          /\ t[j].key \in SectionKeys =>
                /\ t[j].val = NullScalar
                /\ \A a, b \in ChildrenOf(t, j) : t[a].key = t[b].key => a = b

WellFormed(t) == ValidSyntax(t) /\ ExpectedShape(t)

\* the scalar a well-formed text gives a top-level key, NullScalar if none
TopScalar(t, key) ==
    LET at == { j \in TopLines(t) : t[j].key = key }
    IN  IF at = {} THEN NullScalar ELSE t[CHOOSE j \in at : TRUE].val

\* the scalar a well-formed text gives a key of a section, NullScalar if none
SubScalar(t, section, key) ==
    LET at == { i \in 1..Len(t) :
                  /\ t[i].indent = 1 /\ t[i].key = key
                  /\ ParentOf(t, i) # 0 /\ t[ParentOf(t, i)].key = section }
    IN  IF at = {} THEN NullScalar ELSE t[CHOOSE i \in at : TRUE].val

StringOf(s) == IF s = NullScalar THEN "" ELSE s.text
IntOf(s) == IF s = NullScalar THEN 0 ELSE Atoi(s.text)

----------------------------------------------------------------------------
(* Claims about the configuration loader.                                  *)

\* C5: a loader call (New or NewFromPath) on a missing or unreadable file
\* returns a ReadError and a configuration whose every field is the empty
\* string or zero, and yaml.Unmarshal is never invoked.
C5_ReadErrorZeroConfig ==
    (Called /\ ~Readable) =>
        /\ loadRet.err = ReadError
        /\ loadRet.cfg.Name = "" /\ loadRet.cfg.Version = ""
        /\ loadRet.cfg.Description = "" /\ loadRet.cfg.Port = 0
        /\ \A f \in {"URL", "Username", "Password", "Database", "Namespace"} :
              loadRet.cfg.SurrealDB[f] = ""
        /\ \A f \in {"Input", "Output"} : loadRet.cfg.TailwindCSS[f] = ""
        /\ unmarshals = 0

C5_Witness ==
    /\ loadCall.fn = "NewFromPath" /\ loadCall.path = TestingPath
    /\ files[TestingPath].kind = "denied"
    /\ files[DefaultPath].kind = "file" /\ Len(files[DefaultPath].data) = 2
    /\ loadRet.err = ReadError

\* C6: a file that can be read but is not valid YAML of the expected shape
\* gives a ParseError (not nil, not a ReadError), and the loader returns nil
\* exactly when the file was read and its text is well formed.
C6_ParseError ==
    Called =>
        /\ (Readable /\ ~WellFormed(CalledText)) => loadRet.err = ParseError
        /\ loadRet.err = Nil <=> (Readable /\ WellFormed(CalledText))

C6_Witness ==
    /\ loadCall.fn = "New" /\ Readable
    /\ Len(CalledText) = 2
    /\ CalledText[1].key = "port" /\ CalledText[1].val = StrScalar("demo")
    /\ CalledText[2].key = "name"
    /\ loadRet.err = ParseError

\* C7: for a well-formed text the loader returns no error and each of the 11
\* fields has the value the text gives its key, or its zero value when the
\* text does not give the key; keys the descriptor does not know change
\* nothing.
C7_FieldByField ==
    (Called /\ Readable /\ WellFormed(CalledText)) =>
        LET t == CalledText
            c == loadRet.cfg
        IN  /\ loadRet.err = Nil
            /\ c.Name = StringOf(TopScalar(t, "name"))
            /\ c.Version = StringOf(TopScalar(t, "version"))
            /\ c.Description = StringOf(TopScalar(t, "description"))
            /\ c.Port = IntOf(TopScalar(t, "port"))
            /\ c.SurrealDB.URL =
                  StringOf(SubScalar(t, "surrealdb", "surrealdb-url"))
            /\ c.SurrealDB.Username =
                  StringOf(SubScalar(t, "surrealdb", "surrealdb-username"))
            /\ c.SurrealDB.Password =
                  StringOf(SubScalar(t, "surrealdb", "surrealdb-password"))
            /\ c.SurrealDB.Database =
                  StringOf(SubScalar(t, "surrealdb", "surrealdb-database"))
            /\ c.SurrealDB.Namespace =
                  StringOf(SubScalar(t, "surrealdb", "surrealdb-namespace"))
            /\ c.TailwindCSS.Input =
                  StringOf(SubScalar(t, "tailwindcss", "input"))
            /\ c.TailwindCSS.Output =
                  StringOf(SubScalar(t, "tailwindcss", "output"))

C7_Witness ==
    /\ loadCall.fn = "NewFromPath" /\ loadCall.path = DefaultPath
    /\ Readable /\ WellFormed(CalledText)
    /\ Len(CalledText) = 2
    /\ CalledText[1].key = "surrealdb"
    /\ CalledText[2].key = "surrealdb-password"
    /\ loadRet.cfg.SurrealDB.Password = "demo"
    /\ loadRet.cfg.SurrealDB.Username = ""

\* C8: on every file system New() returns the configuration and the error
\* NewFromPath("./ghost.yaml") returns on it, and each of the two reads
\* that one file and changes nothing.
C8_NewIsNewFromDefaultPath ==
    [][ /\ loadCall'.fn = "New" =>
            LET r == NewFromPathBody(files, "./ghost.yaml")
            IN  /\ loadRet' = [cfg |-> r.cfg, err |-> r.err]
                /\ reads' = <<"./ghost.yaml">>
                /\ files' = files
        /\ loadCall' = [fn |-> "NewFromPath", path |-> "./ghost.yaml"] =>
            /\ reads' = <<"./ghost.yaml">>
            /\ files' = files
      ]_vars

C8_Witness ==
    /\ loadCall.fn = "New"
    /\ files[DefaultPath].kind = "file" /\ files[TestingPath].kind = "file"
    /\ loadRet.err = Nil
    /\ loadRet.cfg.Name = "demo" /\ loadRet.cfg.Port = 0

----------------------------------------------------------------------------
(* Claims about Setup.                                                     *)

SetupOrder == <<"New", "Signin", "Use", "LoadHTMLGlob", "Static">>
RemoteSteps == {"New", "Signin", "Use"}
ErrorOf(op) ==
    CASE op = "New"    -> ConnectionError
      [] op = "Signin" -> AuthError
      [] op = "Use"    -> SelectionError
      [] OTHER         -> Nil
Failed == { i \in 1..Len(calls) : ~calls[i].ok }
FirstFailed == CHOOSE i \in Failed : \A k \in Failed : i <= k

\* C1: the calls of one Setup run are a prefix of connect, sign in, select,
\* template glob, static directory, in that order; so no step runs twice, and
\* every call but the last made has succeeded.
C1_FixedOrder ==
    /\ Len(calls) <= Len(SetupOrder)
    /\ \A i \in 1..Len(calls) :
          /\ calls[i].op = SetupOrder[i]
          /\ i < Len(calls) => calls[i].ok

C1_Witness ==
    /\ setupPc = "done"
    /\ Len(calls) = 5
    /\ calls[5].op = "Static"

\* C2: when a remote step fails, Setup returns that step's error, makes no
\* call after it and leaves the engine as it was when Setup was called; Setup
\* returns nil only when connect, sign in and select all succeeded.
C2_AbortOnFirstError ==
    setupPc = "done" =>
        /\ Failed # {} =>
              /\ calls[FirstFailed].op \in RemoteSteps
              /\ Len(calls) = FirstFailed
              /\ setupRet.err = ErrorOf(calls[FirstFailed].op)
              /\ engine = engine0
        /\ setupRet.err = Nil =>
              \A op \in RemoteSteps :
                  \E i \in 1..Len(calls) : calls[i].op = op /\ calls[i].ok

C2_Witness ==
    /\ setupPc = "done"
    /\ Len(calls) = 2
    /\ calls[1].ok /\ ~calls[2].ok
    /\ signinObj(ghostConfig) \notin ServerAccounts
    /\ setupRet.err = AuthError
    /\ engine = [htmlGlob |-> "./templates/*", static |-> {}]

\* C3: with an unreachable URL Setup returns ConnectionError and a nil
\* handle; when the connection was opened and sign-in or selection failed,
\* Setup returns the handle surrealdb.New made, with the error, and the
\* connection is still open.
C3_HandleOnError ==
    setupPc = "done" =>
        /\ ghostConfig.SurrealDB.URL # ServerURL =>
              setupRet.err = ConnectionError /\ setupRet.db.nil
        /\ (Len(calls) >= 1 /\ ~calls[1].ok) =>
              setupRet.err = ConnectionError /\ setupRet.db.nil
        /\ (Len(calls) >= 2 /\ calls[1].ok /\ Failed # {}) =>
              /\ setupRet.err \in {AuthError, SelectionError}
              /\ ~setupRet.db.nil
              /\ setupRet.db.url = ghostConfig.SurrealDB.URL
              /\ conn = "open"

C3_Witness ==
    /\ setupPc = "done"
    /\ Len(calls) = 3
    /\ ~calls[3].ok
    /\ setupRet.err = SelectionError
    /\ setupRet.db = Handle(ServerURL)

\* C9: every remote call takes its arguments from the configuration: the URL
\* for the connection, {user: Username, pass: Password} for the sign-in,
\* Namespace then Database for the selection; and no step of Setup changes
\* the configuration.
C9_ArgumentsFromConfig ==
    [][ /\ ghostConfig' = ghostConfig
        /\ \A i \in 1..Len(calls') :
              LET c == calls'[i]
                  s == ghostConfig.SurrealDB
              IN  /\ c.op = "New" => c.args = <<s.URL>>
                  /\ c.op = "Signin" =>
                        /\ Len(c.args) = 1
                        /\ DOMAIN c.args[1] = {"user", "pass"}
                        /\ c.args[1].user = s.Username
                        /\ c.args[1].pass = s.Password
                  /\ c.op = "Use" => c.args = <<s.Namespace, s.Database>>
      ]_vars

C9_Witness ==
    /\ setupPc = "done"
    /\ Len(calls) = 5
    /\ ghostConfig.SurrealDB.Namespace # ghostConfig.SurrealDB.Database
    /\ ghostConfig.SurrealDB.Username # ghostConfig.SurrealDB.Password
    /\ calls[3].args = <<"test", "app">>

----------------------------------------------------------------------------
(* Claims about BasicRoute.                                                *)

\* C4: after Route(rg) has been called on a route built with path p, RG() on
\* that route returns the group rg.Group(p) made, not nil.
C4_RGAfterRoute ==
    (routeCall.op = "RG" /\ routed /\ basicRoute.Path \in RoutePaths) =>
        /\ ~routeRet.group.nil
        /\ routeRet.group = created

\* C10: BasicRoute.New(path, db) on any receiver, one Route was called on
\* included, returns a route with Path path, DB() db and RG() nil, and leaves
\* the receiver as it was.
C10_NewIndependentOfReceiver ==
    [][ routeCall'.op = "New" =>
            /\ made'.Path = routeCall'.path
            /\ DB(made') = routeCall'.db
            /\ RG(made') = NilGroup
            /\ basicRoute' = basicRoute
      ]_vars

C10_Witness ==
    /\ routeCall.op = "New"
    /\ routed
    /\ ~basicRoute.RouteGroup.nil
    /\ ~basicRoute.db.nil /\ routeCall.db.nil
    /\ basicRoute.Path = "/api" /\ routeCall.path = "/basic"
    /\ made = [db |-> NilDB, RouteGroup |-> NilGroup, Path |-> "/basic"]

====
